---- MODULE Spec2Model ----
(***************************************************************************)
(* extractIRpeaks.py: a command-line batch tool that lists the spectral    *)
(* files of a folder, normalizes each spectrum, finds its local maxima     *)
(* (scipy.signal.find_peaks), filters them by a threshold and writes one   *)
(* csv file (and optionally one figure) per input file.                    *)
(*                                                                         *)
(* Conventions of the model:                                               *)
(*  - a Python str is a sequence of one-character strings;                 *)
(*  - a float is an exact fraction [n, d] in lowest terms with d > 0;      *)
(*    d = 0 stands for the IEEE specials: 0/0 is NaN, 1/0 and -1/0 are     *)
(*    the infinities;                                                      *)
(*  - sample indices are 0-based as in numpy (At), positions inside a      *)
(*    list of peaks are 1-based as in TLA+;                                *)
(*  - an optional command-line argument is [given, val].                   *)
(***************************************************************************)
EXTENDS Integers, Sequences, FiniteSets, TLC

(* Longest spectrum (number of samples) of the peak-detection runs. *)
MaxLen == 7

(* Largest number of files in the listed folder of the command-line runs. *)
MaxFiles == 2

VARIABLES
    argv,          \* the parsed command line (argparse namespace)
    disk,          \* input files: <<folder, name>> -> spectrum [x, y]
    pc,            \* position of the program
    inFolder, outFolder, ampThr, exportFigures, invAmp, inputFormat, peakDistance,
    filesList,     \* what is left of the list_files generator
    f,             \* the loop variable of extract_peaks
    readPath,      \* the path handed to JCAMP_reader
    IRdata,        \* what JCAMP_reader returned
    IRgraph,       \* the 2 x n array [x, y]
    peakIdx,       \* find_peaks' indices, then np.where's positions
    peaks,         \* the 2 x m array of the peaks find_peaks returned
    x, y,          \* the peaks kept by the threshold
    dirs,          \* directories that exist under the working directory
    csvFiles,      \* written csv files: name -> [src, rows]
    figFiles,      \* written figures (names)
    log            \* what the run did, in order: [op, file]

vars == << argv, disk, pc, inFolder, outFolder, ampThr, exportFigures, invAmp,
           inputFormat, peakDistance, filesList, f, readPath, IRdata, IRgraph,
           peakIdx, peaks, x, y, dirs, csvFiles, figFiles, log >>

----------------------------------------------------------------------------
(* Floats *)

Abs(a) == IF a < 0 THEN -a ELSE a

RECURSIVE GCD(_, _)
GCD(a, b) == IF b = 0 THEN a ELSE GCD(b, a % b)

Sign(a) == IF a > 0 THEN 1 ELSE IF a < 0 THEN -1 ELSE 0

(* n/d in lowest terms with d > 0; n/0 is kept as sign(n)/0. *)
F(n, d) ==
    IF d = 0 THEN [n |-> Sign(n), d |-> 0]
    ELSE LET g == GCD(Abs(n), Abs(d))
             s == Sign(d)
         IN  [n |-> (s * n) \div g, d |-> (s * d) \div g]

NaN == [n |-> 0, d |-> 0]
IsNaN(a) == a.d = 0 /\ a.n = 0

(* Subtraction, used on the finite values read from a file. *)
FSub(a, b) == IF IsNaN(a) \/ IsNaN(b) THEN NaN
              ELSE F(a.n * b.d - b.n * a.d, a.d * b.d)

(* Division of finite values: 0/0 is NaN, v/0 is +inf or -inf. *)
FDiv(a, b) == IF IsNaN(a) \/ IsNaN(b) \/ (a.n = 0 /\ b.n = 0) THEN NaN
              ELSE F(a.n * b.d, a.d * b.n)

(* Comparisons: every comparison with NaN is false. *)
FLt(a, b) == /\ ~IsNaN(a)
             /\ ~IsNaN(b)
             /\ IF a.d = 0 /\ b.d = 0 THEN a.n < b.n ELSE a.n * b.d < b.n * a.d
FEq(a, b) == ~IsNaN(a) /\ ~IsNaN(b) /\ a.n = b.n /\ a.d = b.d
FGt(a, b) == FLt(b, a)
FGe(a, b) == FGt(a, b) \/ FEq(a, b)

(* Python's builtin min and max over an array: the first element, replaced *)
(* by each later element that compares smaller (larger).                   *)
RECURSIVE Min(_)
Min(s) == IF Len(s) = 1 THEN s[1]
          ELSE LET m == Min(SubSeq(s, 1, Len(s) - 1))
               IN  IF FLt(s[Len(s)], m) THEN s[Len(s)] ELSE m

RECURSIVE Max(_)
Max(s) == IF Len(s) = 1 THEN s[1]
          ELSE LET m == Max(SubSeq(s, 1, Len(s) - 1))
               IN  IF FGt(s[Len(s)], m) THEN s[Len(s)] ELSE m

(* numpy indexing, 0-based *)
At(s, i) == s[i + 1]

----------------------------------------------------------------------------
(* Strings *)

EndsWith(s, e) == Len(e) <= Len(s) /\ SubSeq(s, Len(s) - Len(e) + 1, Len(s)) = e

(* sub in s, for two str *)
Contains(s, sub) == \E i \in 0..(Len(s) - Len(sub)) : SubSeq(s, i + 1, i + Len(sub)) = sub

(* s[:-3] *)
DropLast3(s) == SubSeq(s, 1, IF Len(s) > 3 THEN Len(s) - 3 ELSE 0)

csv == <<"c", "s", "v">>
jdx == <<"j", "d", "x">>
none == <<"n", "o", "n", "e">>

----------------------------------------------------------------------------
(* scipy.signal.find_peaks, as extract_peaks calls it (distance only) *)

(* _local_maxima_1d, the inner while: the first index at or after i_ahead   *)
(* that is the last sample or differs from x[i].                            *)
RECURSIVE PlateauEnd(_, _, _)
PlateauEnd(a, i, i_ahead) ==
    IF i_ahead < Len(a) - 1 /\ FEq(At(a, i_ahead), At(a, i))
    THEN PlateauEnd(a, i, i_ahead + 1)
    ELSE i_ahead

(* _local_maxima_1d, the outer while from index i: the midpoints of the     *)
(* rising-then-falling plateaus; the first and the last sample are never    *)
(* a maximum.                                                               *)
RECURSIVE LocalMaximaFrom(_, _)
LocalMaximaFrom(a, i) ==
    IF i >= Len(a) - 1 THEN << >>
    ELSE IF FLt(At(a, i - 1), At(a, i))
         THEN LET i_ahead == PlateauEnd(a, i, i + 1)
              IN  IF FLt(At(a, i_ahead), At(a, i))
                  THEN << (i + (i_ahead - 1)) \div 2 >> \o LocalMaximaFrom(a, i_ahead + 1)
                  ELSE LocalMaximaFrom(a, i + 1)
         ELSE LocalMaximaFrom(a, i + 1)

LocalMaxima(a) == LocalMaximaFrom(a, 1)

(* All orders (sequences without repetition) of a finite set. *)
Orders(S) == { o \in [1..Cardinality(S) -> S] : \A i, j \in DOMAIN o : i # j => o[i] # o[j] }

(* np.argsort(priority): the sort is not stable, so any order of the        *)
(* positions with non-decreasing priority can come out.                     *)
ArgSorts(priority) ==
    { o \in Orders(DOMAIN priority) :
        \A i \in 1..(Len(priority) - 1) : ~FLt(priority[o[i + 1]], priority[o[i]]) }

(* _select_by_peak_distance: the two inner whiles for the kept peak at      *)
(* position j: neighbours on each side are dropped up to the first one      *)
(* that is at least d away.                                                 *)
RECURSIVE DropLeft(_, _, _, _, _)
DropLeft(pk, d, j, k, keep) ==
    IF 1 <= k /\ pk[j] - pk[k] < d
    THEN DropLeft(pk, d, j, k - 1, [keep EXCEPT ![k] = FALSE])
    ELSE keep

RECURSIVE DropRight(_, _, _, _, _)
DropRight(pk, d, j, k, keep) ==
    IF k <= Len(pk) /\ pk[k] - pk[j] < d
    THEN DropRight(pk, d, j, k + 1, [keep EXCEPT ![k] = FALSE])
    ELSE keep

(* _select_by_peak_distance: the outer loop, from the highest priority      *)
(* (i = Len) down to the lowest (i = 1).                                    *)
RECURSIVE SelectLoop(_, _, _, _, _)
SelectLoop(pk, order, d, i, keep) ==
    IF i = 0 THEN keep
    ELSE LET j == order[i]
         IN  IF ~keep[j]
             THEN SelectLoop(pk, order, d, i - 1, keep)
             ELSE SelectLoop(pk, order, d, i - 1,
                             DropRight(pk, d, j, j + 1, DropLeft(pk, d, j, j - 1, keep)))

(* The distance left out: no peak is dropped. *)
SelectByPeakDistanceNone(pk, order, d) == [k \in DOMAIN pk |-> TRUE]

SelectByPeakDistance(pk, order, d) ==
    SelectLoop(pk, order, d, Len(pk), [k \in DOMAIN pk |-> TRUE])

(* peaks[keep] and np.where: the elements (positions) of a sequence that    *)
(* satisfy a test, in order.                                                *)
RECURSIVE Where(_, _)
Where(flags, k) ==
    IF k > Len(flags) THEN << >>
    ELSE (IF flags[k] THEN << k >> ELSE << >>) \o Where(flags, k + 1)

Take(s, idx) == [k \in DOMAIN idx |-> s[idx[k]]]

(* find_peaks(a, distance=d) for d >= 1, given the order argsort produced. *)
FindPeaks(a, d, order) ==
    LET pk == LocalMaxima(a)
    IN  Take(pk, Where(SelectByPeakDistance(pk, order, d), 1))

(* The priorities find_peaks sorts: the heights of the local maxima. *)
Heights(a, pk) == [k \in DOMAIN pk |-> At(a, pk[k])]

(* The threshold test left out: every peak is kept. *)
AboveThresholdAll(py, t) == Where([k \in DOMAIN py |-> TRUE], 1)

(* np.where(peaks[1][:] >= ampThreshold) *)
AboveThreshold(py, t) == Where([k \in DOMAIN py |-> FGe(py[k], t)], 1)

----------------------------------------------------------------------------
(* The command line and the input files *)

Given(v) == [given |-> TRUE, val |-> v]
NoStr == [given |-> FALSE, val |-> << >>]
NoFloat == [given |-> FALSE, val |-> NaN]
NoInt == [given |-> FALSE, val |-> 0]
NoBool == [given |-> FALSE, val |-> FALSE]
NoFolder == [given |-> FALSE, val |-> ""]

(* "not v" of Python for an optional str, float, int and bool argument:     *)
(* None, '', 0.0, 0 and False are all falsy. A folder name is kept as one   *)
(* string, the other str values as sequences of characters.                 *)
FalsyStr(a) == ~a.given \/ a.val = << >>
FalsyFloat(a) == ~a.given \/ (a.val.n = 0 /\ a.val.d # 0)
FalsyInt(a) == ~a.given \/ a.val = 0
FalsyBool(a) == ~a.given \/ ~a.val
FalsyFolder(a) == ~a.given \/ a.val = ""

(* File names. *)
a_jdx == <<"a", ".", "j", "d", "x">>
ba_jdx == <<"b", "a", ".", "j", "d", "x">>
a_xdx == <<"a", ".", "x", "d", "x">>
a_dx == <<"a", ".", "d", "x">>
dx == <<"d", "x">>

(* A file of n samples: wavenumbers 400, 800, ... and amplitudes given in   *)
(* hundredths.                                                              *)
Spectrum(hundredths) ==
    [x |-> [i \in DOMAIN hundredths |-> 400 * i],
     y |-> [i \in DOMAIN hundredths |-> F(hundredths[i], 100)]]

NoSpectrum == [x |-> << >>, y |-> << >>]

(* The spectrum of the worked example: y = 0.1, 0.9, 0.05, 0.05, 0.95. *)
Scenario == Spectrum(<<10, 90, 5, 5, 95>>)

(* The spectra of the peak-detection runs: every series of 1 to MaxLen      *)
(* samples over three levels, and the worked example.                       *)
Levels == {0, 1, 100}
Spectra == { Spectrum(h) : h \in UNION { [1..n -> Levels] : n \in 1..MaxLen } } \cup {Scenario}

(* The spectra of the command-line runs: a small peak (0.01) beside a large *)
(* one, and a series that only has a peak once inverted.                    *)
CLISpectra == { Spectrum(<<0, 1, 0, 100, 0>>), Spectrum(<<100, 0, 0, 100>>) }

(* What input_IR holds when another folder is listed. *)
OtherSpectrum == Spectrum(<<0, 100, 0>>)

CLINames == {a_jdx, ba_jdx, a_xdx, a_dx}

(* The command lines of the peak-detection runs: the threshold and the      *)
(* distance vary, nothing is inverted and no figure is made.                *)
PeakArgs ==
    [inputFolder : {"input_IR"},
     outputFolder : {NoFolder},
     ampThreshold : {NoFloat, Given(F(1, 200))},
     exportFigures : {NoBool},
     invertAmplitude : {NoStr},
     inputFormat : {NoStr},
     peakDistance : {NoInt, Given(2), Given(3)}]

(* The command lines of the command-line runs. *)
CLIArgs ==
    [inputFolder : {"input_IR", "data"},
     outputFolder : {NoFolder},
     ampThreshold : {NoFloat, Given(F(0, 1)), Given(F(1, 2))},
     exportFigures : {NoBool, Given(TRUE)},
     invertAmplitude : {NoStr, Given(ba_jdx)},
     inputFormat : {NoStr, Given(dx)},
     peakDistance : {NoInt, Given(0), Given(2), Given(-1)}]

(* The state before main runs; nothing has been read or written. *)
Start(args, files) ==
    /\ argv = args
    /\ disk = files
    /\ pc = "main"
    /\ inFolder = ""
    /\ outFolder = << >>
    /\ ampThr = NaN
    /\ exportFigures = FALSE
    /\ invAmp = [isList |-> TRUE, items |-> << >>, str |-> << >>]
    /\ inputFormat = << >>
    /\ peakDistance = 0
    /\ filesList = << >>
    /\ f = << >>
    /\ readPath = << "", << >> >>
    /\ IRdata = NoSpectrum
    /\ IRgraph = NoSpectrum
    /\ peakIdx = << >>
    /\ peaks = NoSpectrum
    /\ x = << >>
    /\ y = << >>
    /\ dirs = {}
    /\ csvFiles = << >>
    /\ figFiles = {}
    /\ log = << >>

(* Peak-detection runs: one file a.jdx in input_IR, any spectrum. *)
Init ==
    \E args \in PeakArgs, s \in Spectra :
        Start(args, [p \in {<<"input_IR", a_jdx>>} |-> s])

(* Command-line runs: up to MaxFiles files in the listed folder, all with   *)
(* the same spectrum; when the listed folder is not input_IR, input_IR      *)
(* holds files of the same names or nothing.                                *)
InitCLI ==
    \E args \in CLIArgs, names \in SUBSET CLINames, s \in CLISpectra, copy \in BOOLEAN :
        /\ Cardinality(names) <= MaxFiles
        /\ args.inputFolder = "input_IR" => copy
        /\ Start(args,
                 [p \in ({args.inputFolder} \X names)
                        \cup (IF copy THEN {"input_IR"} \X names ELSE {}) |->
                    IF p[1] = args.inputFolder THEN s ELSE OtherSpectrum])

----------------------------------------------------------------------------
(* The program *)

Event(op, file, n) == [op |-> op, file |-> file, n |-> n]

(* The names in a folder. *)
ListDir(folder) == { p[2] : p \in { q \in DOMAIN disk : q[1] = folder } }

(* The extension test left out: every name of the listing. *)
ListFilesAll(listing, extension) == listing

(* list_files: the names of the listing that end with the extension, in the *)
(* order os.listdir yields them.                                            *)
ListFiles(listing, extension) == SelectSeq(listing, LAMBDA name : EndsWith(name, extension))

(* The path extract_peaks reads for the name f. *)
JcampPath(name) == << "input_IR", name >>

(* f in invertAmp: membership in a list, substring of a str. *)
In(name, container) ==
    IF container.isList
    THEN \E i \in DOMAIN container.items : container.items[i] = name
    ELSE Contains(container.str, name)

(* The csv file extract_peaks opens for the name f. *)
CsvName(name) == DropLast3(name) \o csv

(* main: the defaults, the listing of the input folder, the call of         *)
(* extract_peaks.                                                           *)
Main ==
    /\ pc = "main"
    /\ inFolder' = argv.inputFolder
    /\ outFolder' = IF FalsyFolder(argv.outputFolder)
                    THEN <<"output_peaks">> ELSE <<argv.outputFolder.val>>
    /\ ampThr' = IF FalsyFloat(argv.ampThreshold) THEN F(5, 100) ELSE argv.ampThreshold.val
    /\ exportFigures' = IF FalsyBool(argv.exportFigures) THEN FALSE ELSE argv.exportFigures.val
    /\ invAmp' = IF FalsyStr(argv.invertAmplitude)
                 THEN [isList |-> TRUE, items |-> <<none>>, str |-> << >>]
                 ELSE [isList |-> FALSE, items |-> << >>, str |-> argv.invertAmplitude.val]
    /\ inputFormat' = IF FalsyStr(argv.inputFormat) THEN jdx ELSE argv.inputFormat.val
    /\ peakDistance' = IF FalsyInt(argv.peakDistance) THEN 1 ELSE argv.peakDistance.val
    /\ \E listing \in Orders(ListDir(argv.inputFolder)) :
           filesList' = ListFiles(listing, inputFormat')
    /\ pc' = "for"
    /\ UNCHANGED << argv, disk, f, readPath, IRdata, IRgraph, peakIdx, peaks, x, y,
                    dirs, csvFiles, figFiles, log >>

(* for f in filesList: the next name, or return 0. *)
ForNext ==
    /\ pc = "for"
    /\ IF filesList = << >>
       THEN /\ pc' = "done"
            /\ UNCHANGED << f, filesList >>
       ELSE /\ f' = Head(filesList)
            /\ filesList' = Tail(filesList)
            /\ pc' = "load"
    /\ UNCHANGED << argv, disk, inFolder, outFolder, ampThr, exportFigures, invAmp,
                    inputFormat, peakDistance, readPath, IRdata, IRgraph, peakIdx,
                    peaks, x, y, dirs, csvFiles, figFiles, log >>

(* JCAMP_reader and the copy into IRgraph; a missing file raises. *)
Load ==
    /\ pc = "load"
    /\ readPath' = JcampPath(f)
    /\ IF readPath' \in DOMAIN disk
       THEN /\ IRdata' = disk[readPath']
            /\ IRgraph' = disk[readPath']
            /\ log' = Append(log, Event("load", f, 0))
            /\ pc' = "invert"
       ELSE /\ log' = Append(log, Event("FileNotFoundError", f, 0))
            /\ pc' = "raised"
            /\ UNCHANGED << IRdata, IRgraph >>
    /\ UNCHANGED << argv, disk, inFolder, outFolder, ampThr, exportFigures, invAmp,
                    inputFormat, peakDistance, filesList, f, peakIdx, peaks, x, y,
                    dirs, csvFiles, figFiles >>

(* if f in invertAmp: y = 1 - y *)
Invert ==
    /\ pc = "invert"
    /\ IF In(f, invAmp)
       THEN /\ IRgraph' = [IRgraph EXCEPT !.y = [i \in DOMAIN IRgraph.y |->
                                                    FSub(F(1, 1), IRgraph.y[i])]]
            /\ log' = Append(log, Event("invert", f, 0))
       ELSE UNCHANGED << IRgraph, log >>
    /\ pc' = "offset"
    /\ UNCHANGED << argv, disk, inFolder, outFolder, ampThr, exportFigures, invAmp,
                    inputFormat, peakDistance, filesList, f, readPath, IRdata, peakIdx,
                    peaks, x, y, dirs, csvFiles, figFiles >>

(* The offset left in: the step only moves on. *)
RemoveOffsetNone ==
    /\ pc = "offset"
    /\ pc' = "normalize"
    /\ UNCHANGED << argv, disk, inFolder, outFolder, ampThr, exportFigures, invAmp,
                    inputFormat, peakDistance, filesList, f, readPath, IRdata, IRgraph,
                    peakIdx, peaks, x, y, dirs, csvFiles, figFiles, log >>

(* y = y - min(y) *)
RemoveOffset ==
    /\ pc = "offset"
    /\ IRgraph' = [IRgraph EXCEPT !.y = [i \in DOMAIN IRgraph.y |->
                                            FSub(IRgraph.y[i], Min(IRgraph.y))]]
    /\ pc' = "normalize"
    /\ UNCHANGED << argv, disk, inFolder, outFolder, ampThr, exportFigures, invAmp,
                    inputFormat, peakDistance, filesList, f, readPath, IRdata, peakIdx,
                    peaks, x, y, dirs, csvFiles, figFiles, log >>

(* y /= max(y): numpy divides by zero without raising (0/0 is NaN). *)
Normalize ==
    /\ pc = "normalize"
    /\ IRgraph' = [IRgraph EXCEPT !.y = [i \in DOMAIN IRgraph.y |->
                                            FDiv(IRgraph.y[i], Max(IRgraph.y))]]
    /\ log' = Append(log, Event("normalize", f, 0))
    /\ pc' = "find_peaks"
    /\ UNCHANGED << argv, disk, inFolder, outFolder, ampThr, exportFigures, invAmp,
                    inputFormat, peakDistance, filesList, f, readPath, IRdata, peakIdx,
                    peaks, x, y, dirs, csvFiles, figFiles >>

(* peakIdx = find_peaks(y, distance); peaks = the x and y at peakIdx.       *)
(* find_peaks raises ValueError for a distance below 1.                     *)
DetectPeaks ==
    /\ pc = "find_peaks"
    /\ IF peakDistance < 1
       THEN /\ log' = Append(log, Event("ValueError", f, 0))
            /\ pc' = "raised"
            /\ UNCHANGED << peakIdx, peaks >>
       ELSE /\ \E order \in ArgSorts(Heights(IRgraph.y, LocalMaxima(IRgraph.y))) :
                   peakIdx' = FindPeaks(IRgraph.y, peakDistance, order)
            /\ peaks' = [x |-> [k \in DOMAIN peakIdx' |-> At(IRgraph.x, peakIdx'[k])],
                         y |-> [k \in DOMAIN peakIdx' |-> At(IRgraph.y, peakIdx'[k])]]
            /\ log' = Append(log, Event("find_peaks", f, 0))
            /\ pc' = "filter"
    /\ UNCHANGED << argv, disk, inFolder, outFolder, ampThr, exportFigures, invAmp,
                    inputFormat, peakDistance, filesList, f, readPath, IRdata, IRgraph,
                    x, y, dirs, csvFiles, figFiles >>

(* peakIdx = np.where(peaks[1] >= ampThreshold); x, y = the peaks there *)
FilterPeaks ==
    /\ pc = "filter"
    /\ peakIdx' = AboveThreshold(peaks.y, ampThr)
    /\ x' = Take(peaks.x, peakIdx')
    /\ y' = Take(peaks.y, peakIdx')
    /\ pc' = "mkdir"
    /\ UNCHANGED << argv, disk, inFolder, outFolder, ampThr, exportFigures, invAmp,
                    inputFormat, peakDistance, filesList, f, readPath, IRdata, IRgraph,
                    peaks, dirs, csvFiles, figFiles, log >>

(* if not os.path.isdir(outFolder): os.mkdir(outFolder) *)
MkOutDir ==
    /\ pc = "mkdir"
    /\ IF outFolder \notin dirs
       THEN /\ dirs' = dirs \cup {outFolder}
            /\ log' = Append(log, Event("mkdir", f, 0))
       ELSE UNCHANGED << dirs, log >>
    /\ pc' = "figure"
    /\ UNCHANGED << argv, disk, inFolder, outFolder, ampThr, exportFigures, invAmp,
                    inputFormat, peakDistance, filesList, f, readPath, IRdata, IRgraph,
                    peakIdx, peaks, x, y, csvFiles, figFiles >>

(* The flag ignored: no figure is made, the step only moves on. *)
CreateFigureNever ==
    /\ pc = "figure"
    /\ pc' = "write"
    /\ UNCHANGED << argv, disk, inFolder, outFolder, ampThr, exportFigures, invAmp,
                    inputFormat, peakDistance, filesList, f, readPath, IRdata, IRgraph,
                    peakIdx, peaks, x, y, dirs, csvFiles, figFiles, log >>

(* if exportFigures: create_figure(...), which makes the figures folder     *)
(* when it is missing and saves the figure under f[:-3].                    *)
CreateFigure ==
    /\ pc = "figure"
    /\ IF exportFigures
       THEN /\ dirs' = dirs \cup {outFolder \o <<"figures">>}
            /\ figFiles' = figFiles \cup {DropLast3(f)}
            /\ log' = log \o (IF outFolder \o <<"figures">> \in dirs
                              THEN << >> ELSE << Event("mkdir_figures", f, 0) >>)
                          \o << Event("figure", f, 0) >>
       ELSE UNCHANGED << dirs, figFiles, log >>
    /\ pc' = "write"
    /\ UNCHANGED << argv, disk, inFolder, outFolder, ampThr, exportFigures, invAmp,
                    inputFormat, peakDistance, filesList, f, readPath, IRdata, IRgraph,
                    peakIdx, peaks, x, y, csvFiles >>

(* open(f[:-3] + 'csv', 'w'); writer.writerows(zip(x, y)) *)
WriteCsv ==
    /\ pc = "write"
    /\ csvFiles' = (CsvName(f) :> [src |-> f, rows |-> [k \in DOMAIN x |-> << x[k], y[k] >>]])
                       @@ csvFiles
    /\ log' = Append(log, Event("write", f, 0))
    /\ pc' = "print"
    /\ UNCHANGED << argv, disk, inFolder, outFolder, ampThr, exportFigures, invAmp,
                    inputFormat, peakDistance, filesList, f, readPath, IRdata, IRgraph,
                    peakIdx, peaks, x, y, dirs, figFiles >>

(* print("INFO: A total number of " + str(len(peakIdx[0])) + " peaks ...") *)
PrintSummary ==
    /\ pc = "print"
    /\ log' = Append(log, Event("print", f, Len(peakIdx)))
    /\ pc' = "for"
    /\ UNCHANGED << argv, disk, inFolder, outFolder, ampThr, exportFigures, invAmp,
                    inputFormat, peakDistance, filesList, f, readPath, IRdata, IRgraph,
                    peakIdx, peaks, x, y, dirs, csvFiles, figFiles >>

Next ==
    \/ Main
    \/ ForNext
    \/ Load
    \/ Invert
    \/ RemoveOffset
    \/ Normalize
    \/ DetectPeaks
    \/ FilterPeaks
    \/ MkOutDir
    \/ CreateFigure
    \/ WriteCsv
    \/ PrintSummary

Spec == Init /\ [][Next]_vars

SpecCLI == InitCLI /\ [][Next]_vars

----------------------------------------------------------------------------
(* Properties *)

(* The rows of the csv file written for the current file. *)
Rows == csvFiles[CsvName(f)].rows

(* The series has an inner sample strictly above both neighbours and t. *)
StrictMaxAbove(a, t) ==
    \E i \in 1..(Len(a) - 2) :
        /\ FGt(At(a, i), At(a, i - 1))
        /\ FGt(At(a, i), At(a, i + 1))
        /\ FGt(At(a, i), t)

(* C1: when the normalized spectrum of a file has a strict local maximum    *)
(* above the threshold, the peaks written for the file are not empty and    *)
(* each has a normalized amplitude of at least the threshold.               *)
C1_PeaksAboveThreshold ==
    (pc = "print" /\ StrictMaxAbove(IRgraph.y, ampThr)) =>
        /\ Len(Rows) > 0
        /\ \A k \in DOMAIN Rows : FGe(Rows[k][2], ampThr)

(* A file was written whose spectrum has a maximum above the threshold and  *)
(* a peak that the threshold dropped.                                       *)
C1_Witness ==
    /\ pc = "print"
    /\ StrictMaxAbove(IRgraph.y, ampThr)
    /\ Len(Rows) > 0
    /\ Len(peaks.y) > Len(Rows)

(* C2: the indices find_peaks returns increase, and any two of them differ  *)
(* by at least the distance.                                                *)
C2_PeaksApartAndOrdered ==
    pc = "filter" =>
        \A i, j \in DOMAIN peakIdx :
            i < j => /\ peakIdx[i] < peakIdx[j]
                     /\ peakIdx[j] - peakIdx[i] >= peakDistance

(* find_peaks dropped a local maximum for the distance and returned two     *)
(* peaks.                                                                   *)
C2_Witness ==
    /\ pc = "filter"
    /\ peakDistance >= 2
    /\ Len(peakIdx) >= 2
    /\ Len(LocalMaxima(IRgraph.y)) > Len(peakIdx)

(* The worked example is being processed with the default threshold and     *)
(* distance.                                                                *)
ScenarioRun == IRdata = Scenario /\ ampThr = F(5, 100) /\ peakDistance = 1

(* C3, as stated: the worked example has local maxima at indices 1 and 4    *)
(* and two peaks are written, (800, 0.944...) and (2000, 1).                *)
C3_ScenarioTwoPeaks ==
    ScenarioRun =>
        /\ pc = "filter" => peakIdx = <<1, 4>>
        /\ pc = "print" => Rows = << <<800, F(85, 90)>>, <<2000, F(1, 1)>> >>

(* C3, amended: the worked example has one local maximum, at index 1 (the   *)
(* last sample is never a maximum), and one peak is written, (800, 0.944...)*)
C3_ScenarioOnePeak ==
    ScenarioRun =>
        /\ pc = "filter" => peakIdx = <<1>>
        /\ pc = "print" => Rows = << <<800, F(85, 90)>> >>

(* The csv file of the worked example was written. *)
C3_Witness == ScenarioRun /\ pc = "print" /\ CsvName(f) \in DOMAIN csvFiles

(* All amplitudes of the series are equal. *)
IsFlat(a) == Len(a) > 0 /\ \A i \in DOMAIN a : FEq(a[i], a[1])

(* C4: once a flat spectrum has been normalized the program is in an error  *)
(* state and no csv file was written for it.                                *)
C4_FlatSpectrumRaises ==
    (IsFlat(IRdata.y) /\ pc \notin {"invert", "offset", "normalize"}) =>
        /\ pc = "raised"
        /\ CsvName(f) \notin DOMAIN csvFiles

(* The extension the run was asked to list: -if, or jdx without it. *)
AskedFormat == IF argv.inputFormat.given THEN argv.inputFormat.val ELSE jdx

(* No name in the input folder ends with the asked extension. *)
NoMatchingFile == \A name \in ListDir(argv.inputFolder) : ~EndsWith(name, AskedFormat)

(* C5: when no file of the input folder ends with the extension, the run    *)
(* processes no file, raises nothing, and creates neither the output folder *)
(* nor its figures folder, also with figure export on.                      *)
C5_NothingCreatedWithoutFiles ==
    NoMatchingFile =>
        /\ pc \in {"main", "for", "done"}
        /\ filesList = << >>
        /\ log = << >>
        /\ dirs = {}
        /\ csvFiles = << >>
        /\ figFiles = {}

(* A run with figure export on ended over a folder that has files, none of  *)
(* which ends with the extension.                                           *)
C5_Witness ==
    /\ pc = "done"
    /\ NoMatchingFile
    /\ ListDir(argv.inputFolder) # {}
    /\ exportFigures

(* C6: the spectrum loaded for a name is the file of that name in the input *)
(* folder given on the command line.                                        *)
C6_LoadsFromInputFolder ==
    (f # << >> /\ pc # "load") =>
        /\ readPath = << argv.inputFolder, f >>
        /\ IRdata = disk[<< argv.inputFolder, f >>]

(* s without its suffix e, and without the dot before it. *)
BaseName(s, e) ==
    LET cut == SubSeq(s, 1, Len(s) - Len(e))
    IN  IF cut # << >> /\ cut[Len(cut)] = "." THEN SubSeq(cut, 1, Len(cut) - 1) ELSE cut

(* The files the run has written a csv file for. *)
Written == { log[i].file : i \in { j \in DOMAIN log : log[j].op = "write" } }

(* C7: each csv file is named after its input file with the extension       *)
(* replaced by csv, and distinct input files get distinct csv files.        *)
C7_CsvNamedAfterInput ==
    /\ \A name \in DOMAIN csvFiles :
           name = BaseName(csvFiles[name].src, AskedFormat) \o <<".">> \o csv
    /\ Cardinality(DOMAIN csvFiles) = Cardinality(Written)

(* The names given with -ia. The values used here hold no separator, so     *)
(* each is a list of one name.                                              *)
ListedForInversion ==
    IF argv.invertAmplitude.given THEN {argv.invertAmplitude.val} ELSE {}

Inverted(file) == \E i \in DOMAIN log : log[i].op = "invert" /\ log[i].file = file

(* C8: a file is inverted exactly when its name is one of the names given   *)
(* with -ia.                                                                *)
C8_InvertedIffListed ==
    \A i \in DOMAIN log :
        log[i].op = "normalize" =>
            (Inverted(log[i].file) <=> log[i].file \in ListedForInversion)

(* C9: extract_peaks runs with the threshold given with -at (0 included)    *)
(* and the distance given with -pd (a positive integer), and with 0.05 and  *)
(* 1 only when the option is absent.                                        *)
C9_GivenValuesUsed ==
    pc # "main" =>
        /\ ampThr = IF argv.ampThreshold.given THEN argv.ampThreshold.val ELSE F(5, 100)
        /\ argv.peakDistance.given /\ argv.peakDistance.val >= 1
               => peakDistance = argv.peakDistance.val
        /\ ~argv.peakDistance.given => peakDistance = 1

(* The order of the steps of one file, as the specification states it and   *)
(* as extract_peaks runs them; an exception ends the run.                   *)
RankStated(op) ==
    CASE op = "load" -> 1
      [] op = "invert" -> 2
      [] op = "normalize" -> 3
      [] op = "find_peaks" -> 4
      [] op = "mkdir" -> 5
      [] op = "write" -> 6
      [] op = "mkdir_figures" -> 7
      [] op = "figure" -> 8
      [] op = "print" -> 9
      [] OTHER -> 10

RankRun(op) ==
    CASE op = "load" -> 1
      [] op = "invert" -> 2
      [] op = "normalize" -> 3
      [] op = "find_peaks" -> 4
      [] op = "mkdir" -> 5
      [] op = "mkdir_figures" -> 6
      [] op = "figure" -> 7
      [] op = "write" -> 8
      [] op = "print" -> 9
      [] OTHER -> 10

(* The events of a file are together in the log: an event that has a later  *)
(* event of its file is directly followed by an event of its file.          *)
OneFileAtATime ==
    \A i, k \in DOMAIN log :
        (i < k /\ log[i].file = log[k].file) => log[i + 1].file = log[i].file

(* The output folder was created before any csv file or figure. *)
FolderFirst ==
    \A j \in DOMAIN log :
        log[j].op \in {"write", "figure"} =>
            \E i \in 1..(j - 1) : log[i].op = "mkdir"

(* Event j is preceded by the event op of the same file. *)
After(j, op) == \E i \in 1..(j - 1) : log[i].op = op /\ log[i].file = log[j].file

(* C10, as stated: load, normalize, detect, write, figure, print, with the  *)
(* csv file written before the figure is rendered.                          *)
C10_WriteThenFigure ==
    /\ OneFileAtATime
    /\ FolderFirst
    /\ \A i, j \in DOMAIN log :
           (i < j /\ log[i].file = log[j].file) => RankStated(log[i].op) < RankStated(log[j].op)
    /\ \A j \in DOMAIN log : log[j].op = "figure" => After(j, "write")

(* C10, amended: load, normalize, detect, figure, write, print, with the    *)
(* figure rendered before the csv file is written.                          *)
C10_FigureThenWrite ==
    /\ OneFileAtATime
    /\ FolderFirst
    /\ \A i, j \in DOMAIN log :
           (i < j /\ log[i].file = log[j].file) => RankRun(log[i].op) < RankRun(log[j].op)
    /\ \A j \in DOMAIN log :
           /\ (log[j].op = "write" /\ exportFigures) => After(j, "figure")
           /\ log[j].op = "write" => After(j, "find_peaks")
           /\ log[j].op = "find_peaks" => After(j, "normalize")
           /\ log[j].op = "normalize" => After(j, "load")
           /\ log[j].op = "print" => After(j, "write")

(* A run with figure export on has ended after two files. *)
C10_Witness ==
    /\ pc = "done"
    /\ exportFigures
    /\ Cardinality(Written) = 2
    /\ Cardinality(figFiles) = 2

====
